---- MODULE Spec2Model ----
(***************************************************************************)
(* Model of fugue's type-directed call adapter:                            *)
(*   fugue/dataframe/function_wrapper.py  (DataFrameFunctionWrapper and    *)
(*                                         the tabular parameter handlers) *)
(*   fugue/workflow/module.py             (_ModuleFunctionWrapper)         *)
(*                                                                         *)
(* Python values are records carrying their class in the field cls.  A     *)
(* dict is a function from its keys, a list or a (finite) iterator the     *)
(* sequence of its items.                                                  *)
(***************************************************************************)
EXTENDS Integers, Sequences, FiniteSets, TLC

VARIABLES
    pc,      \* position of the operation in progress
    params,  \* FunctionWrapper._params: the declared parameters, in order
    rt,      \* FunctionWrapper._rt: the class of the return handler
    call,    \* the arguments of the operation in progress
    result   \* what the operation has done and returned so far

vars == <<pc, params, rt, call, result>>

(***************************************************************************)
(* Bounds of the model.                                                    *)
(***************************************************************************)
MaxParams == 2     \* declared parameters of a wrapped function
MaxArgs == 1       \* positional arguments of a call of run
MaxKw == 2         \* keyword arguments of a call of run
MaxRows == 2       \* rows of a dataset handle
MaxModArgs == 2    \* positional arguments of a call of a module
MaxModKw == 1      \* keyword arguments of a call of a module

(***************************************************************************)
(* Python helpers.                                                         *)
(***************************************************************************)
None == [cls |-> "NoneType"]

EmptyDict == [k \in {} |-> None]

DictUpdate(d, e) ==
    [k \in (DOMAIN d) \cup (DOMAIN e) |-> IF k \in DOMAIN e THEN e[k] ELSE d[k]]

DictDel(d, k) == [x \in (DOMAIN d) \ {k} |-> d[x]]

Object(i) == [cls |-> "object", id |-> i]

SeqsUpTo(S, n) == UNION {[1..k -> S] : k \in 0..n}

DictsUpTo(K, S, n) ==
    UNION {[D -> S] : D \in {X \in SUBSET K : Cardinality(X) <= n}}

ParamNames == <<"a", "b", "c", "d", "e">>

(***************************************************************************)
(* The dataset classes (fugue.dataframe.*, not part of the two files       *)
(* modelled here): a handle carries a schema (its column names, in order)  *)
(* and rows; a LocalDataFrameIterableDataFrame carries a sequence of local *)
(* frames, its partitions.                                                 *)
(***************************************************************************)
Schema(names) == [cls |-> "Schema", names |-> names]

DataFrameClasses ==
    {"ArrayDataFrame", "IterableDataFrame", "PandasDataFrame", "ArrowDataFrame",
     "LocalDataFrameIterableDataFrame"}

BoundedClasses == {"ArrayDataFrame", "PandasDataFrame", "ArrowDataFrame"}

IsDataFrame(v) == v.cls \in DataFrameClasses

is_bounded(df) == df.cls \in BoundedClasses

FrameError(msg) == [cls |-> "Exception", msg |-> msg]

\* ArrayDataFrame(rows, schema): the rows under the given schema
ArrayDataFrame(rows, schema) ==
    IF schema = None
    THEN FrameError("schema is required")
    ELSE [cls |-> "ArrayDataFrame", schema |-> schema, rows |-> rows]

\* IterableDataFrame(rows, schema): the rows, streamed, under the given schema
IterableDataFrame(rows, schema) ==
    IF schema = None
    THEN FrameError("schema is required")
    ELSE [cls |-> "IterableDataFrame", schema |-> schema, rows |-> rows]

RECURSIVE Flatten(_)
Flatten(frames) ==
    IF frames = <<>> THEN <<>> ELSE Head(frames).rows \o Flatten(Tail(frames))

\* the rows a handle realizes, in order
Rows(df) ==
    IF df.cls = "LocalDataFrameIterableDataFrame" THEN Flatten(df.native) ELSE df.rows

\* position of a column name in a sequence of names (0 when absent)
IndexOf(names, x) ==
    IF \E i \in 1..Len(names) : names[i] = x
    THEN CHOOSE i \in 1..Len(names) : names[i] = x
    ELSE 0

\* the values of row, whose columns are named cols, in the order of names
Project(row, cols, names) == [i \in 1..Len(names) |-> row[IndexOf(cols, names[i])]]

Covers(cols, names) == \A i \in 1..Len(names) : IndexOf(cols, names[i]) > 0

\* PandasDataFrame(pdf, schema): the frame's columns selected in schema order
PandasDataFrame(pdf, schema) ==
    IF schema = None
    THEN [cls |-> "PandasDataFrame", schema |-> Schema(pdf.columns), rows |-> pdf.values]
    ELSE IF ~Covers(pdf.columns, schema.names)
    THEN FrameError("schema mismatch")
    ELSE [cls |-> "PandasDataFrame", schema |-> schema,
          rows |-> [i \in 1..Len(pdf.values) |->
                       Project(pdf.values[i], pdf.columns, schema.names)]]

\* ArrowDataFrame(table, schema): the table's columns aligned to the schema
ArrowDataFrame(table, schema) ==
    IF schema = None
    THEN [cls |-> "ArrowDataFrame", schema |-> Schema(table.columns), rows |-> table.values]
    ELSE IF ~Covers(table.columns, schema.names)
    THEN FrameError("schema mismatch")
    ELSE [cls |-> "ArrowDataFrame", schema |-> schema,
          rows |-> [i \in 1..Len(table.values) |->
                       Project(table.values[i], table.columns, schema.names)]]

\* LocalDataFrameIterableDataFrame(frames), no schema given: the schema is
\* that of the first partition, and there is none to take when no partition
\* is yielded
LocalDataFrameIterableDataFrame(frames) ==
    IF \E i \in 1..Len(frames) : frames[i].cls = "Exception"
    THEN FrameError("partition")
    ELSE IF frames = <<>>
    THEN FrameError("schema is not provided and the input is empty")
    ELSE [cls |-> "LocalDataFrameIterableDataFrame", schema |-> frames[1].schema,
          native |-> frames]

as_array(df) == [cls |-> "list", items |-> Rows(df)]

as_array_iterable(df) == [cls |-> "iterator", items |-> Rows(df)]

DictRow(names, row) == [x \in {names[i] : i \in 1..Len(names)} |-> row[IndexOf(names, x)]]

as_dict_iterable(df) ==
    [cls |-> "iterator",
     dicts |-> [i \in 1..Len(Rows(df)) |-> DictRow(df.schema.names, Rows(df)[i])]]

as_pandas(df) ==
    [cls |-> "pd.DataFrame", columns |-> df.schema.names, values |-> Rows(df)]

as_arrow(df) ==
    [cls |-> "pa.Table", columns |-> df.schema.names, values |-> Rows(df)]

to_local_df(df) == df

make_empty_aware(it) == [it EXCEPT !.cls = "EmptyAwareIterable"]

list(it) == [it EXCEPT !.cls = "list"]

Str(s) == [cls |-> "str", val |-> s]

(***************************************************************************)
(* The tabular handlers (function_wrapper.py, lines 89-381).               *)
(***************************************************************************)
NoSchemaClasses ==
    {"_ListListParam", "_IterableListParam", "_EmptyAwareIterableListParam",
     "_ListDictParam", "_IterableDictParam", "_EmptyAwareIterableDictParam"}

ColumnarClasses ==
    {"_PandasParam", "_IterablePandasParam", "_PyArrowTableParam", "_IterableArrowParam"}

\* the subclasses of _DataFrameParamBase
DataFrameParamClasses ==
    {"DataFrameParam", "LocalDataFrameParam"} \cup NoSchemaClasses \cup ColumnarClasses

IsDataFrameParamBase(h) == h \in DataFrameParamClasses

\* DataFrameParam.to_output_df and LocalDataFrameParam.to_output_df
DataFrameParam_to_output_df(output, schema) ==
    IF schema = None \/ output.schema = schema
    THEN output
    ELSE FrameError("Output schema mismatch")

\* RowsOfDicts taking the values of a row against the order of schema.names
RowsOfDicts_Reversed(dicts, names) ==
    [i \in 1..Len(dicts) |-> [j \in 1..Len(names) |-> dicts[i][names[Len(names) + 1 - j]]]]

\* [row[x] for x in schema.names] for every row of a sequence of dicts
RowsOfDicts(dicts, names) ==
    [i \in 1..Len(dicts) |-> [j \in 1..Len(names) |-> dicts[i][names[j]]]]

\* to_output_df of _ListDictParam, _IterableDictParam and
\* _EmptyAwareIterableDictParam
Dict_to_output_df(output, schema) ==
    IF schema = None
    THEN FrameError("schema is required")
    ELSE IF \E i \in 1..Len(output.dicts) : \E j \in 1..Len(schema.names) :
               schema.names[j] \notin DOMAIN output.dicts[i]
    THEN FrameError("KeyError")
    ELSE IterableDataFrame(RowsOfDicts(output.dicts, schema.names), schema)

\* _IterablePandasParam.to_input_data
IterablePandas_to_input_data(df) ==
    IF df.cls # "LocalDataFrameIterableDataFrame"
    THEN [cls |-> "iterator", frames |-> <<as_pandas(df)>>]
    ELSE [cls |-> "iterator",
          frames |-> [i \in 1..Len(df.native) |-> as_pandas(df.native[i])]]

\* _IterablePandasParam.to_output_df
IterablePandas_to_output_df(output, schema) ==
    LocalDataFrameIterableDataFrame(
        [i \in 1..Len(output.frames) |-> PandasDataFrame(output.frames[i], schema)])

\* _IterableArrowParam.to_input_data
IterableArrow_to_input_data(df) ==
    IF df.cls # "LocalDataFrameIterableDataFrame"
    THEN [cls |-> "iterator", tables |-> <<as_arrow(df)>>]
    ELSE [cls |-> "iterator",
          tables |-> [i \in 1..Len(df.native) |-> as_arrow(df.native[i])]]

\* one table of _IterableArrowParam.to_output_df: wrapped, then aligned to the
\* schema when it has another one
AlignedArrow(table, schema) ==
    IF schema # None /\ ArrowDataFrame(table, None).schema # schema
    THEN ArrowDataFrame(table, schema)
    ELSE ArrowDataFrame(table, None)

\* _IterableArrowParam.to_output_df
IterableArrow_to_output_df(output, schema) ==
    LocalDataFrameIterableDataFrame(
        [i \in 1..Len(output.tables) |-> AlignedArrow(output.tables[i], schema)])

\* handler.to_input_data(df, ctx) of the handler class h
to_input_data(h, df) ==
    CASE h = "DataFrameParam" -> df
      [] h = "LocalDataFrameParam" -> to_local_df(df)
      [] h = "_ListListParam" -> as_array(df)
      [] h = "_IterableListParam" -> as_array_iterable(df)
      [] h = "_EmptyAwareIterableListParam" -> make_empty_aware(as_array_iterable(df))
      [] h = "_ListDictParam" -> list(as_dict_iterable(to_local_df(df)))
      [] h = "_IterableDictParam" -> as_dict_iterable(df)
      [] h = "_EmptyAwareIterableDictParam" -> make_empty_aware(as_dict_iterable(df))
      [] h = "_PandasParam" -> as_pandas(df)
      [] h = "_IterablePandasParam" -> IterablePandas_to_input_data(df)
      [] h = "_PyArrowTableParam" -> as_arrow(df)
      [] h = "_IterableArrowParam" -> IterableArrow_to_input_data(df)

\* handler.to_output_df(output, schema, ctx) of the handler class h
to_output_df(h, output, schema) ==
    CASE h \in {"DataFrameParam", "LocalDataFrameParam"} ->
             DataFrameParam_to_output_df(output, schema)
      [] h = "_ListListParam" -> ArrayDataFrame(output.items, schema)
      [] h \in {"_IterableListParam", "_EmptyAwareIterableListParam"} ->
             IterableDataFrame(output.items, schema)
      [] h \in {"_ListDictParam", "_IterableDictParam", "_EmptyAwareIterableDictParam"} ->
             Dict_to_output_df(output, schema)
      [] h = "_PandasParam" -> PandasDataFrame(output, schema)
      [] h = "_IterablePandasParam" -> IterablePandas_to_output_df(output, schema)
      [] h = "_PyArrowTableParam" -> ArrowDataFrame(output, schema)
      [] h = "_IterableArrowParam" -> IterableArrow_to_output_df(output, schema)

\* handler.format_hint() of the tabular handler class h
format_hint(h) ==
    CASE h \in {"_PandasParam", "_IterablePandasParam"} -> Str("pandas")
      [] h \in {"_PyArrowTableParam", "_IterableArrowParam"} -> Str("pyarrow")
      [] OTHER -> None

(***************************************************************************)
(* DataFrameFunctionWrapper (function_wrapper.py, lines 26-86).            *)
(*                                                                         *)
(* A declared parameter is [name, handler, required]; the handler classes  *)
(* _PositionalParam ( *args ) and _KeywordParam ( **kwargs ) are bound by  *)
(* neither name nor index, every other parameter is a named one.           *)
(***************************************************************************)
Param(n, h, r) == [name |-> n, handler |-> h, required |-> r]

\* the error run raises, "" when it raises none
NoError == ""

\* lines 53-56: the pool p of call arguments, the positional ones under the
\* name declared at their index, overlaid with the keyword ones
Pool(args, kwargs) ==
    DictUpdate([k \in {params[i].name : i \in 1..Len(args)} |->
                   args[CHOOSE i \in 1..Len(args) : params[i].name = k]],
               kwargs)

\* BindOne without the raise of line 74 for a missing required parameter
BindOne_NoRequiredCheck(v, st) ==
    LET k == v.name
    IN  IF v.handler \in {"_PositionalParam", "_KeywordParam"}
        THEN [st EXCEPT !.has_kw = @ \/ v.handler = "_KeywordParam"]
        ELSE IF k \in DOMAIN st.p
        THEN IF IsDataFrameParamBase(v.handler) /\ ~IsDataFrame(st.p[k])
             THEN [st EXCEPT !.error = "TypeError", !.error_name = k]
             ELSE [st EXCEPT
                      !.rargs = DictUpdate(@,
                          [x \in {k} |->
                              IF IsDataFrameParamBase(v.handler)
                              THEN to_input_data(v.handler, st.p[k])
                              ELSE st.p[k]]),
                      !.p = DictDel(@, k)]
        ELSE st

\* BindOne passing every bound value raw, the tabular ones unconverted
BindOne_NoConversion(v, st) ==
    LET k == v.name
    IN  IF v.handler \in {"_PositionalParam", "_KeywordParam"}
        THEN [st EXCEPT !.has_kw = @ \/ v.handler = "_KeywordParam"]
        ELSE IF k \in DOMAIN st.p
        THEN IF IsDataFrameParamBase(v.handler) /\ ~IsDataFrame(st.p[k])
             THEN [st EXCEPT !.error = "TypeError", !.error_name = k]
             ELSE [st EXCEPT
                      !.rargs = DictUpdate(@, [x \in {k} |-> st.p[k]]),
                      !.p = DictDel(@, k)]
        ELSE IF v.required
        THEN [st EXCEPT !.error = "required", !.error_name = k]
        ELSE st

\* lines 60-74: one turn of the loop over the declared parameters, for the
\* parameter v, st holding p, rargs, has_kw and the error raised, if any
BindOne(v, st) ==
    LET k == v.name
    IN  IF v.handler \in {"_PositionalParam", "_KeywordParam"}
        THEN [st EXCEPT !.has_kw = @ \/ v.handler = "_KeywordParam"]
        ELSE IF k \in DOMAIN st.p
        THEN IF IsDataFrameParamBase(v.handler) /\ ~IsDataFrame(st.p[k])
             THEN [st EXCEPT !.error = "TypeError", !.error_name = k]
             ELSE [st EXCEPT
                      !.rargs = DictUpdate(@,
                          [x \in {k} |->
                              IF IsDataFrameParamBase(v.handler)
                              THEN to_input_data(v.handler, st.p[k])
                              ELSE st.p[k]]),
                      !.p = DictDel(@, k)]
        ELSE IF v.required
        THEN [st EXCEPT !.error = "required", !.error_name = k]
        ELSE st

\* line 59: the loop, from the parameter at index i on; a raise ends it
RECURSIVE BindFrom(_, _)
BindFrom(i, st) ==
    IF i > Len(params) \/ st.error # NoError THEN st
    ELSE BindFrom(i + 1, BindOne(params[i], st))

\* lines 53-74: the binding of a call's arguments
Bind(args, kwargs) ==
    BindFrom(1, [p |-> Pool(args, kwargs), rargs |-> EmptyDict, has_kw |-> FALSE,
                 error |-> NoError, error_name |-> ""])

\* FinalArgs without the merge of line 76
FinalArgs_NoMerge(st) == st.rargs

\* lines 75-78: what the function is called with, given the state the loop
\* ends in
FinalArgs(st) == IF st.has_kw THEN DictUpdate(st.rargs, st.p) ELSE st.rargs

\* lines 77-78: the call is refused for its unconsumed arguments
Unacceptable(st, ignore_unknown) ==
    ~st.has_kw /\ ~ignore_unknown /\ DOMAIN st.p # {}

\* BindingError with the check of lines 77-78 made before the loop's
BindingError_UnacceptableFirst(st, ignore_unknown) ==
    IF Unacceptable(st, ignore_unknown) THEN "not acceptable"
    ELSE IF st.error # NoError THEN st.error
    ELSE NoError

\* lines 59-78: the error the binding of a call ends with: the one the loop
\* raised, else the one of the unconsumed arguments
BindingError(st, ignore_unknown) ==
    IF st.error # NoError THEN st.error
    ELSE IF Unacceptable(st, ignore_unknown) THEN "not acceptable"
    ELSE NoError

\* Returned with the output schema dropped from the conversion
Returned_NoSchema(output, output_schema, rv) ==
    IF ~output THEN None
    ELSE IF IsDataFrameParamBase(rt) THEN to_output_df(rt, rv, None)
    ELSE rv

\* Returned with the early return of line 83 taken for tabular handlers only
Returned_RawWithoutOutput(output, output_schema, rv) ==
    IF ~output /\ IsDataFrameParamBase(rt) THEN None
    ELSE IF IsDataFrameParamBase(rt) THEN to_output_df(rt, rv, output_schema)
    ELSE rv

\* lines 80-86: what run returns, the function having returned rv
Returned(output, output_schema, rv) ==
    IF ~output THEN None
    ELSE IF IsDataFrameParamBase(rt) THEN to_output_df(rt, rv, output_schema)
    ELSE rv

\* lines 80-83: the values the return handler counts
Counted(output, rv) ==
    IF ~output /\ IsDataFrameParamBase(rt) THEN <<rv>> ELSE <<>>

\* lines 84-85: the conversions the return handler makes
Converted(output, output_schema, rv) ==
    IF output /\ IsDataFrameParamBase(rt)
    THEN <<[df |-> rv, schema |-> output_schema]>>
    ELSE <<>>

\* a call that raised before the function was invoked
Raised(st, error) ==
    [error |-> error, error_name |-> st.error_name, pool |-> st.p,
     consumed |-> st.rargs, has_kw |-> st.has_kw,
     invoked |-> FALSE, func_kwargs |-> EmptyDict, func_returned |-> None,
     count_calls |-> <<>>, to_output_calls |-> <<>>, returned |-> None]

\* DataFrameFunctionWrapper.run(args, kwargs, ignore_unknown, output_schema,
\* output), the underlying function returning rv when it is invoked
RunResult(c, rv) ==
    IF Len(c.args) > Len(params)
    THEN Raised([p |-> EmptyDict, rargs |-> EmptyDict, has_kw |-> FALSE,
                 error_name |-> ""], "IndexError")
    ELSE LET st == Bind(c.args, c.kwargs)
         IN  IF BindingError(st, c.ignore_unknown) # NoError
             THEN Raised(st, BindingError(st, c.ignore_unknown))
             ELSE [error |-> NoError, error_name |-> "", pool |-> st.p,
                   consumed |-> st.rargs, has_kw |-> st.has_kw,
                   invoked |-> TRUE, func_kwargs |-> FinalArgs(st),
                   func_returned |-> rv,
                   count_calls |-> Counted(c.output, rv),
                   to_output_calls |-> Converted(c.output, c.output_schema, rv),
                   returned |-> Returned(c.output, c.output_schema, rv)]

(***************************************************************************)
(* The wrapped functions and the calls of run that are explored.           *)
(***************************************************************************)
Frame0 == ArrayDataFrame(<<>>, Schema(<<"x">>))

Frame1 == ArrayDataFrame(<<<<1>>>>, Schema(<<"x">>))

RunValues == {Frame1, Object(1)}

RunSchemas == {None, Schema(<<"x">>)}

\* the handlers a parameter of an explored function resolves to
RunParamKinds ==
    {<<"_PositionalParam", FALSE>>, <<"_KeywordParam", FALSE>>,
     <<"OtherParam", TRUE>>, <<"OtherParam", FALSE>>, <<"_ListListParam", TRUE>>}

RunReturnKinds == {"OtherParam", "_ListListParam"}

\* a Python signature: one *args and one **kwargs at most, **kwargs last
ValidSignature(ps) ==
    /\ Cardinality({i \in 1..Len(ps) : ps[i].handler = "_PositionalParam"}) <= 1
    /\ \A i \in 1..Len(ps) : ps[i].handler = "_KeywordParam" => i = Len(ps)

Signatures(kinds, n) ==
    {ps \in UNION {[1..k -> [name : {ParamNames[i] : i \in 1..n}, handler : {x[1] : x \in kinds},
                             required : BOOLEAN]] : k \in 0..n} :
        /\ \A i \in 1..Len(ps) : ps[i].name = ParamNames[i]
        /\ \A i \in 1..Len(ps) : <<ps[i].handler, ps[i].required>> \in kinds
        /\ ValidSignature(ps)}

DeclaredNames == {params[i].name : i \in 1..Len(params)}

\* what the underlying function may return
ReturnValues ==
    IF IsDataFrameParamBase(rt)
    THEN {to_input_data(rt, Frame0), to_input_data(rt, Frame1)}
    ELSE {None, Object(2)}

Pending == [cls |-> "pending"]

InitRun ==
    /\ pc = "ready"
    /\ params \in Signatures(RunParamKinds, MaxParams)
    /\ rt \in RunReturnKinds
    /\ call = Pending
    /\ result = Pending

Run ==
    /\ pc = "ready"
    /\ \E args \in SeqsUpTo(RunValues, MaxArgs),
          kwargs \in DictsUpTo(DeclaredNames \cup {"z"}, RunValues, MaxKw),
          ignore_unknown \in BOOLEAN, output \in BOOLEAN,
          output_schema \in RunSchemas, rv \in ReturnValues :
          LET c == [args |-> args, kwargs |-> kwargs,
                    ignore_unknown |-> ignore_unknown,
                    output_schema |-> output_schema, output |-> output]
          IN  /\ call' = c
              /\ result' = RunResult(c, rv)
    /\ pc' = "done"
    /\ UNCHANGED <<params, rt>>

NextRun == Run

SpecRun == InitRun /\ [][NextRun]_vars

(***************************************************************************)
(* Properties of DataFrameFunctionWrapper.run, over the finished calls of  *)
(* SpecRun.  The call's arguments are read from call, never from the       *)
(* intermediate values of the model.                                       *)
(***************************************************************************)
Done == pc = "done"

\* the call has no more positional arguments than the function has parameters
WithinArity == Len(call.args) <= Len(params)

IsNamed(i) == params[i].handler \notin {"_PositionalParam", "_KeywordParam"}

IsTabular(i) == IsDataFrameParamBase(params[i].handler)

\* the parameter at index i is bound, by index or by keyword
Given(i) == i <= Len(call.args) \/ params[i].name \in DOMAIN call.kwargs

ValueOf(i) ==
    IF params[i].name \in DOMAIN call.kwargs
    THEN call.kwargs[params[i].name]
    ELSE call.args[i]

MissingRequired(i) == IsNamed(i) /\ params[i].required /\ ~Given(i)

BadFrame(i) == IsNamed(i) /\ IsTabular(i) /\ Given(i) /\ ~IsDataFrame(ValueOf(i))

HasKeywordParam == \E i \in 1..Len(params) : params[i].handler = "_KeywordParam"

\* the names of the call arguments no named parameter takes
LeftoverNames ==
    {k \in DOMAIN call.kwargs : ~\E i \in 1..Len(params) : IsNamed(i) /\ params[i].name = k}
    \cup {params[i].name : i \in {j \in 1..Len(call.args) : ~IsNamed(j)}}

LeftoverValue(k) ==
    IF k \in DOMAIN call.kwargs THEN call.kwargs[k]
    ELSE call.args[CHOOSE i \in 1..Len(call.args) : params[i].name = k]

\* the loop over the declared parameters raises nothing
LoopCompletes == \A i \in 1..Len(params) : ~MissingRequired(i) /\ ~BadFrame(i)

\* the first declared parameter the loop raises for
FirstRefused ==
    CHOOSE i \in 1..Len(params) :
        /\ MissingRequired(i) \/ BadFrame(i)
        /\ \A j \in 1..(i - 1) : ~MissingRequired(j) /\ ~BadFrame(j)

\* what the function receives for the named parameter at index i
Received(i) ==
    IF IsTabular(i) THEN to_input_data(params[i].handler, ValueOf(i)) ELSE ValueOf(i)

\* C1 as stated: every required named parameter that is not bound makes run
\* fail with the 'required but not given' error naming that parameter, the
\* function not invoked; a missing optional one raises nothing and is not
\* passed.
C1_EveryMissingNamed ==
    (Done /\ WithinArity) =>
        \A i \in 1..Len(params) :
            /\ MissingRequired(i) =>
                   /\ result.error = "required"
                   /\ result.error_name = params[i].name
                   /\ ~result.invoked
            /\ (IsNamed(i) /\ ~params[i].required /\ ~Given(i)) =>
                   /\ result.error_name # params[i].name
                   /\ params[i].name \notin DOMAIN result.func_kwargs

\* C1 amended: when some required named parameter is not bound, run fails and
\* the function is not invoked; the error is 'required but not given' naming
\* the FIRST such parameter in declared order, unless a tabular parameter
\* declared before it is bound to a value that is not a DataFrame, and then
\* it is the TypeError.  A missing optional named parameter raises nothing
\* and is not passed.
C1_FirstMissingNamed ==
    (Done /\ WithinArity) =>
        /\ (\E i \in 1..Len(params) : MissingRequired(i)) =>
               LET m == CHOOSE i \in 1..Len(params) :
                            MissingRequired(i) /\ \A j \in 1..(i - 1) : ~MissingRequired(j)
               IN  /\ ~result.invoked
                   /\ IF \E j \in 1..(m - 1) : BadFrame(j)
                      THEN result.error = "TypeError"
                      ELSE /\ result.error = "required"
                           /\ result.error_name = params[m].name
        /\ \A i \in 1..Len(params) :
               (IsNamed(i) /\ ~params[i].required /\ ~Given(i)) =>
                   /\ result.error_name # params[i].name
                   /\ params[i].name \notin DOMAIN result.func_kwargs

\* two required named parameters are missing and run names the first
C1_Witness ==
    /\ Done /\ WithinArity
    /\ \E i, j \in 1..Len(params) : i < j /\ MissingRequired(i) /\ MissingRequired(j)
    /\ result.error = "required"

\* C2: the loop having consumed the named parameters' entries, the entries
\* left over are all passed as keyword arguments when the signature has a
\* keyword-capturing parameter; otherwise, when there are any, run fails with
\* the 'unacceptable parameters' error naming them unless ignore_unknown is
\* set, and then the function is invoked with exactly the consumed entries.
C2_Leftovers ==
    (Done /\ WithinArity /\ LoopCompletes) =>
        /\ HasKeywordParam =>
               /\ result.invoked
               /\ \A k \in LeftoverNames :
                      /\ k \in DOMAIN result.func_kwargs
                      /\ result.func_kwargs[k] = LeftoverValue(k)
        /\ (~HasKeywordParam /\ ~call.ignore_unknown /\ LeftoverNames # {}) =>
               /\ result.error = "not acceptable"
               /\ DOMAIN result.pool = LeftoverNames
               /\ \A k \in LeftoverNames : result.pool[k] = LeftoverValue(k)
               /\ ~result.invoked
        /\ (~HasKeywordParam /\ call.ignore_unknown) =>
               /\ result.invoked
               /\ DOMAIN result.func_kwargs =
                      {params[i].name : i \in {j \in 1..Len(params) : IsNamed(j) /\ Given(j)}}
               /\ \A i \in 1..Len(params) :
                      (IsNamed(i) /\ Given(i)) =>
                          result.func_kwargs[params[i].name] = Received(i)

\* an unknown argument is discarded next to a consumed one
C2_Witness ==
    /\ Done /\ WithinArity /\ LoopCompletes
    /\ ~HasKeywordParam /\ call.ignore_unknown
    /\ LeftoverNames # {}
    /\ result.invoked /\ DOMAIN result.func_kwargs # {}

\* C3 as stated: a tabular parameter bound to a value that is not a DataFrame
\* makes run fail with TypeError; bound to a DataFrame, the function (when it
\* is invoked) receives its conversion; any other named parameter is received
\* raw.
C3_EveryBoundNamed ==
    (Done /\ WithinArity) =>
        \A i \in 1..Len(params) :
            (IsNamed(i) /\ Given(i)) =>
                /\ BadFrame(i) => (result.error = "TypeError" /\ ~result.invoked)
                /\ result.invoked =>
                       /\ params[i].name \in DOMAIN result.func_kwargs
                       /\ result.func_kwargs[params[i].name] = Received(i)

\* C3 amended: a tabular parameter bound to a value that is not a DataFrame
\* makes run fail without invoking the function; the error is the one of the
\* first declared parameter the loop refuses: TypeError, unless a required
\* named parameter that is missing is declared before every badly bound
\* tabular parameter (the error is then 'required but not given').  Whenever
\* the function is invoked, it receives handler.to_input_data(value) for a
\* bound tabular parameter and the raw value for any other bound named one.
C3_BoundNamed ==
    (Done /\ WithinArity) =>
        \A i \in 1..Len(params) :
            (IsNamed(i) /\ Given(i)) =>
                /\ BadFrame(i) =>
                       /\ ~result.invoked
                       /\ result.error =
                              (IF MissingRequired(FirstRefused) THEN "required"
                               ELSE "TypeError")
                       /\ result.error_name = params[FirstRefused].name
                /\ result.invoked =>
                       /\ params[i].name \in DOMAIN result.func_kwargs
                       /\ result.func_kwargs[params[i].name] = Received(i)

\* the function is invoked with a converted DataFrame and a raw value
C3_Witness ==
    /\ Done /\ WithinArity /\ result.invoked
    /\ \E i, j \in 1..Len(params) :
           /\ IsNamed(i) /\ Given(i) /\ IsTabular(i)
           /\ result.func_kwargs[params[i].name] # ValueOf(i)
           /\ IsNamed(j) /\ Given(j) /\ ~IsTabular(j)

\* C4: with a tabular return handler, the return value is counted once and
\* nothing converted nor returned when output is false, and converted with
\* the caller's output_schema, not counted, when output is true.
C4_CountOrConvert ==
    (Done /\ result.invoked /\ IsDataFrameParamBase(rt)) =>
        IF call.output
        THEN /\ result.returned =
                    to_output_df(rt, result.func_returned, call.output_schema)
             /\ result.to_output_calls =
                    <<[df |-> result.func_returned, schema |-> call.output_schema]>>
             /\ result.count_calls = <<>>
        ELSE /\ result.count_calls = <<result.func_returned>>
             /\ result.to_output_calls = <<>>
             /\ result.returned = None

\* a conversion under a caller-supplied schema has produced a DataFrame
C4_Witness ==
    /\ Done /\ result.invoked /\ IsDataFrameParamBase(rt)
    /\ call.output /\ call.output_schema # None
    /\ IsDataFrame(result.returned)
    /\ Len(Rows(result.returned)) > 0

\* C5 as stated: output false and a return annotation that is not tabular,
\* the raw return value is returned.
C5_RawWhenNoOutput ==
    (Done /\ result.invoked /\ ~call.output /\ ~IsDataFrameParamBase(rt)) =>
        result.returned = result.func_returned

\* C5 amended: with a return annotation that is not tabular, run returns
\* nothing (None) when output is false, and the raw return value of the
\* function, unconverted, when output is true; it counts and converts nothing.
C5_RawWhenOutput ==
    (Done /\ result.invoked /\ ~IsDataFrameParamBase(rt)) =>
        /\ result.returned = (IF call.output THEN result.func_returned ELSE None)
        /\ result.count_calls = <<>>
        /\ result.to_output_calls = <<>>

\* the function returned a value and run, output false, returned None
C5_Witness ==
    /\ Done /\ result.invoked /\ ~call.output /\ ~IsDataFrameParamBase(rt)
    /\ result.func_returned # None
    /\ result.returned = None

\* the calls of C10: no keyword-capturing parameter, ignore_unknown false, a
\* required named parameter missing and an argument under an undeclared name
C10_Case ==
    /\ Done /\ WithinArity
    /\ ~HasKeywordParam /\ ~call.ignore_unknown
    /\ \E i \in 1..Len(params) : MissingRequired(i)
    /\ \E k \in DOMAIN call.kwargs : k \notin DeclaredNames

\* C10 as stated: such a call fails with the 'unacceptable parameters' error.
C10_UnacceptableFirst == C10_Case => result.error = "not acceptable"

\* C10 amended: the required-parameter check is evaluated, inside the loop
\* over the declared parameters, before the unconsumed-argument check: such a
\* call never fails with the 'unacceptable parameters' error; it fails with
\* 'required but not given', or with the TypeError of a tabular parameter
\* declared before the missing one.
C10_RequiredFirst ==
    C10_Case =>
        /\ result.error \in {"required", "TypeError"}
        /\ (\A i \in 1..Len(params) : ~BadFrame(i)) => result.error = "required"
        /\ ~result.invoked

C10_Witness == C10_Case /\ result.error = "required" /\ result.error_name = "b"

(***************************************************************************)
(* DataFrameFunctionWrapper.get_format_hint (function_wrapper.py, lines    *)
(* 35-42).                                                                 *)
(***************************************************************************)
\* lines 36-42: the loop over the declared parameters from index i on, then
\* the return handler
RECURSIVE HintFrom(_)
HintFrom(i) ==
    IF i > Len(params)
    THEN IF IsDataFrameParamBase(rt) THEN format_hint(rt) ELSE None
    ELSE IF IsDataFrameParamBase(params[i].handler)
            /\ format_hint(params[i].handler) # None
    THEN format_hint(params[i].handler)
    ELSE HintFrom(i + 1)

\* get_format_hint asking the return handler before the parameters
get_format_hint_ReturnFirst ==
    IF IsDataFrameParamBase(rt) /\ format_hint(rt) # None
    THEN format_hint(rt)
    ELSE HintFrom(1)

get_format_hint == HintFrom(1)

\* the handlers a parameter of a function asked for its hint resolves to
HintParamKinds ==
    {<<h, TRUE>> : h \in DataFrameParamClasses}
    \cup {<<"_PositionalParam", FALSE>>, <<"_KeywordParam", FALSE>>,
          <<"OtherParam", TRUE>>, <<"_DataFramesParam", TRUE>>}

HintReturnKinds == DataFrameParamClasses \cup {"OtherParam", "NoneParam"}

InitHint ==
    /\ pc = "ready"
    /\ params \in Signatures(HintParamKinds, MaxParams)
    /\ rt \in HintReturnKinds
    /\ call = Pending
    /\ result = Pending

GetFormatHint ==
    /\ pc = "ready"
    /\ call' = [op |-> "get_format_hint"]
    /\ result' = [hint |-> get_format_hint]
    /\ pc' = "done"
    /\ UNCHANGED <<params, rt>>

NextHint == GetFormatHint

SpecHint == InitHint /\ [][NextHint]_vars

\* the indexes of the parameters whose handler declares a hint
Hinted == {i \in 1..Len(params) : IsTabular(i) /\ format_hint(params[i].handler) # None}

ReturnHinted == IsDataFrameParamBase(rt) /\ format_hint(rt) # None

\* C8: get_format_hint returns the hint of the first parameter, in declared
\* order, whose tabular handler declares one; with no such parameter, the
\* hint of a tabular return handler; and None exactly when no tabular handler
\* of the parameters or of the return declares a hint.
C8_FirstHint ==
    Done =>
        /\ Hinted # {} =>
               result.hint =
                   format_hint(params[CHOOSE i \in Hinted : \A j \in Hinted : i <= j].handler)
        /\ (Hinted = {} /\ IsDataFrameParamBase(rt)) => result.hint = format_hint(rt)
        /\ (result.hint = None) <=> (Hinted = {} /\ ~ReturnHinted)

\* a parameter's hint is returned, past a tabular parameter without a hint
\* and against another hint of the return handler
C8_Witness ==
    /\ Done
    /\ Len(params) >= 2
    /\ IsTabular(1) /\ 1 \notin Hinted /\ 2 \in Hinted
    /\ ReturnHinted /\ format_hint(rt) # format_hint(params[2].handler)
    /\ result.hint = format_hint(params[2].handler)

(***************************************************************************)
(* _ModuleFunctionWrapper (module.py, lines 77-163).                       *)
(*                                                                         *)
(* A FugueWorkflow is known by its identity id; a WorkflowDataFrame        *)
(* carries its owning workflow, a WorkflowDataFrames its members in order. *)
(* The keyword arguments of a call are kept in their order, as a sequence  *)
(* of [name, value].                                                       *)
(***************************************************************************)
Workflow(i) == [cls |-> "FugueWorkflow", id |-> i]

WorkflowDataFrame(w) == [cls |-> "WorkflowDataFrame", workflow |-> Workflow(w)]

WorkflowDataFrames(members) == [cls |-> "WorkflowDataFrames", items |-> members]

\* the one-letter code of a handler class (lines 58-74)
Code(h) ==
    CASE h = "_FugueWorkflowParam" -> "w"
      [] h = "_WorkflowDataFrameParam" -> "v"
      [] h = "_WorkflowDataFramesParam" -> "u"
      [] h = "_KeywordParam" -> "z"
      [] h = "_PositionalParam" -> "y"
      [] OTHER -> "x"

\* line 81, params_re = "^(w?(u|v+)|w(u?|v*))x*z?$", on the codes cs
MatchesParamsRe(cs) ==
    \E i \in 0..Len(cs), j \in 0..Len(cs) :
        /\ i <= j
        /\ Len(cs) - j <= 1
        /\ \A k \in (j + 1)..Len(cs) : cs[k] = "z"
        /\ \A k \in (i + 1)..j : cs[k] = "x"
        /\ LET head == SubSeq(cs, 1, i)
               vs(from) == from <= i /\ \A k \in from..i : head[k] = "v"
           IN  \/ head = <<"u">> \/ head = <<"w", "u">>
               \/ vs(1)
               \/ (i >= 2 /\ head[1] = "w" /\ vs(2))
               \/ head = <<"w">>

ModuleHandlers ==
    {"_FugueWorkflowParam", "_WorkflowDataFrameParam", "_WorkflowDataFramesParam",
     "OtherParam", "_KeywordParam"}

ModuleSignatures(n) ==
    {ps \in UNION {[1..k -> [name : {ParamNames[i] : i \in 1..n}, handler : ModuleHandlers,
                             required : BOOLEAN]] : k \in 1..n} :
        /\ \A i \in 1..Len(ps) : ps[i].name = ParamNames[i]
        /\ \A i \in 1..Len(ps) : ps[i].required = (ps[i].handler # "_KeywordParam")
        /\ MatchesParamsRe([i \in 1..Len(ps) |-> Code(ps[i].handler)])}

\* lines 120-122
first_annotation_is_workflow == params[1].handler = "_FugueWorkflowParam"

KwNames(kwargs) == {kwargs[i].name : i \in 1..Len(kwargs)}

\* _need_add_workflow without the test of line 127 on the keyword arguments
need_add_workflow_NoKeywordTest(args, kwargs) ==
    IF ~first_annotation_is_workflow THEN FALSE
    ELSE IF Len(args) > 0 /\ args[1].cls = "FugueWorkflow" THEN FALSE
    ELSE TRUE

\* lines 124-131
need_add_workflow(args, kwargs) ==
    IF ~first_annotation_is_workflow THEN FALSE
    ELSE IF params[1].name \in KwNames(kwargs) THEN FALSE
    ELSE IF Len(args) > 0 /\ args[1].cls = "FugueWorkflow" THEN FALSE
    ELSE TRUE

IsGraphBound(v) == v.cls \in {"WorkflowDataFrames", "WorkflowDataFrame"}

\* lines 134-140: the arguments that are graph-bound, positional ones first
select_args(args, kwargs) ==
    SelectSeq(args, IsGraphBound)
    \o SelectSeq([i \in 1..Len(kwargs) |-> kwargs[i].value], IsGraphBound)

\* CheckOwner taking the owner without comparing it with the one found so far
CheckOwner_NoComparison(v, st) == [st EXCEPT !.wf = v.workflow]

\* lines 145-149 and 156-162: the handle v against the workflow found so far
CheckOwner(v, st) ==
    IF st.wf = None \/ v.workflow = st.wf
    THEN [st EXCEPT !.wf = v.workflow]
    ELSE [st EXCEPT !.error = "different parent workflows"]

\* lines 151-162: the members of a WorkflowDataFrames, from index i on
RECURSIVE CheckMembers(_, _, _)
CheckMembers(items, i, st) ==
    IF i > Len(items) \/ st.error # NoError THEN st
    ELSE IF items[i].cls # "WorkflowDataFrame"
    THEN [st EXCEPT !.error = "not a WorkflowDataFrame"]
    ELSE CheckMembers(items, i + 1, CheckOwner(items[i], st))

\* lines 143-162: the loop over the selected arguments, from index i on
RECURSIVE InferFrom(_, _, _)
InferFrom(sel, i, st) ==
    IF i > Len(sel) \/ st.error # NoError THEN st
    ELSE IF sel[i].cls = "WorkflowDataFrame"
    THEN InferFrom(sel, i + 1, CheckOwner(sel[i], st))
    ELSE InferFrom(sel, i + 1, CheckMembers(sel[i].items, 1, st))

\* lines 133-163: [wf, error], wf the workflow returned when error is NoError
infer_workflow(args, kwargs) ==
    InferFrom(select_args(args, kwargs), 1, [wf |-> None, error |-> NoError])

\* lines 86-91: __call__, the delegation to FunctionWrapper.__call__ recorded
CallResult(args, kwargs) ==
    IF need_add_workflow(args, kwargs)
    THEN LET st == infer_workflow(args, kwargs)
         IN  IF st.error # NoError
             THEN [inferring |-> TRUE, error |-> st.error, wf |-> None,
                   delegated |-> FALSE, args |-> <<>>, kwargs |-> <<>>]
             ELSE IF st.wf = None
             THEN [inferring |-> TRUE, error |-> "can't infer workflow", wf |-> None,
                   delegated |-> FALSE, args |-> <<>>, kwargs |-> <<>>]
             ELSE [inferring |-> TRUE, error |-> NoError, wf |-> st.wf,
                   delegated |-> TRUE, args |-> <<st.wf>> \o args, kwargs |-> kwargs]
    ELSE [inferring |-> FALSE, error |-> NoError, wf |-> None,
          delegated |-> TRUE, args |-> args, kwargs |-> kwargs]

\* the values a module is called with
ModuleValues ==
    {Workflow(1), WorkflowDataFrame(1), WorkflowDataFrame(2),
     WorkflowDataFrames(<<>>),
     WorkflowDataFrames(<<WorkflowDataFrame(2)>>),
     WorkflowDataFrames(<<WorkflowDataFrame(1), WorkflowDataFrame(2)>>),
     Object(1)}

\* keyword arguments: distinct names, among them the first parameter's
ModuleKwargs ==
    {kw \in SeqsUpTo([name : {ParamNames[1], "z", "y"}, value : ModuleValues], MaxModKw) :
        \A i, j \in 1..Len(kw) : i # j => kw[i].name # kw[j].name}

InitModule ==
    /\ pc = "ready"
    /\ params \in ModuleSignatures(MaxParams)
    /\ rt = "NoneParam"
    /\ call = Pending
    /\ result = Pending

Call ==
    /\ pc = "ready"
    /\ \E args \in SeqsUpTo(ModuleValues, MaxModArgs), kwargs \in ModuleKwargs :
          /\ call' = [args |-> args, kwargs |-> kwargs]
          /\ result' = CallResult(args, kwargs)
    /\ pc' = "done"
    /\ UNCHANGED <<params, rt>>

NextModule == Call

SpecModule == InitModule /\ [][NextModule]_vars

\* the call leaves the context out: the condition of C7
OmitsContext ==
    /\ params[1].handler = "_FugueWorkflowParam"
    /\ ~\E i \in 1..Len(call.kwargs) : call.kwargs[i].name = params[1].name
    /\ ~(Len(call.args) > 0 /\ call.args[1].cls = "FugueWorkflow")

\* the values of the call, positional and keyword
CallValues ==
    {call.args[i] : i \in 1..Len(call.args)}
    \cup {call.kwargs[i].value : i \in 1..Len(call.kwargs)}

\* the graph-bound handles of the call, direct or members of a collection
CallHandles ==
    {v \in CallValues : v.cls = "WorkflowDataFrame"}
    \cup UNION {{v.items[i] : i \in 1..Len(v.items)} :
                   v \in {x \in CallValues : x.cls = "WorkflowDataFrames"}}

Owners == {h.workflow : h \in CallHandles}

\* C6: when __call__ infers the context, handles of different owning contexts
\* make the call fail with the ValueError of the conflict; handles that agree
\* give their common owning context, which owns every handle of the call; no
\* handle at all makes the call fail with the inference error, the function
\* not invoked.
C6_Inference ==
    (Done /\ OmitsContext) =>
        /\ Cardinality(Owners) >= 2 =>
               result.error = "different parent workflows" /\ ~result.delegated
        /\ Cardinality(Owners) = 1 =>
               /\ result.error = NoError
               /\ result.wf \in Owners
               /\ \A h \in CallHandles : h.workflow = result.wf
        /\ Owners = {} =>
               result.error = "can't infer workflow" /\ ~result.delegated

\* a context is inferred from a direct handle and a member of a collection
C6_Witness ==
    /\ Done /\ OmitsContext
    /\ result.error = NoError /\ result.wf = Workflow(2)
    /\ \E v \in CallValues : v.cls = "WorkflowDataFrame"
    /\ \E v \in CallValues : v.cls = "WorkflowDataFrames" /\ Len(v.items) > 0

\* C7: __call__ infers exactly when the first declared parameter is a context
\* handle, its name is no keyword argument and the first positional argument
\* is no context; the inferred context then goes first, before the caller's
\* positional arguments in their order, the keyword arguments unchanged; in
\* every other case the arguments are delegated unchanged and nothing is
\* inferred or checked.
C7_Prepend ==
    Done =>
        /\ result.inferring <=> OmitsContext
        /\ (result.inferring /\ result.delegated) =>
               /\ result.args = <<result.wf>> \o call.args
               /\ result.wf.cls = "FugueWorkflow"
               /\ result.kwargs = call.kwargs
        /\ ~result.inferring =>
               /\ result.delegated /\ result.error = NoError
               /\ result.args = call.args
               /\ result.kwargs = call.kwargs

\* the context is given by keyword: conflicting handles are delegated as is
C7_Witness ==
    /\ Done
    /\ params[1].handler = "_FugueWorkflowParam"
    /\ \E i \in 1..Len(call.kwargs) : call.kwargs[i].name = params[1].name
    /\ Cardinality(Owners) >= 2
    /\ result.delegated /\ result.args = call.args /\ Len(call.args) > 0

(***************************************************************************)
(* The round trip of a tabular handler: to_input_data of a dataset handle, *)
(* then to_output_df of the result under the handle's schema.              *)
(***************************************************************************)
Cells == {1, 2}

RoundTripSchema == Schema(<<"y", "x">>)

RoundTripRows == [1..Len(RoundTripSchema.names) -> Cells]

\* the partitions of a streaming handle: local frames of one row at most
Partitions ==
    {ArrayDataFrame(rows, RoundTripSchema) : rows \in SeqsUpTo(RoundTripRows, 1)}

\* the dataset handles converted
Handles ==
    {[cls |-> c, schema |-> RoundTripSchema, rows |-> rows] :
        c \in DataFrameClasses \ {"LocalDataFrameIterableDataFrame"},
        rows \in SeqsUpTo(RoundTripRows, MaxRows)}
    \cup {[cls |-> "LocalDataFrameIterableDataFrame", schema |-> RoundTripSchema,
           native |-> native] : native \in SeqsUpTo(Partitions, MaxRows)}

InitRoundTrip ==
    /\ pc = "ready"
    /\ params = <<>>
    /\ rt \in DataFrameParamClasses
    /\ \E df \in Handles : call = [df |-> df, schema |-> df.schema]
    /\ result = Pending

\* handler.to_input_data(df, ctx)
ToInput ==
    /\ pc = "ready"
    /\ result' = [data |-> to_input_data(rt, call.df), out |-> None]
    /\ pc' = "input"
    /\ UNCHANGED <<params, rt, call>>

\* handler.to_output_df(data, schema, ctx)
ToOutput ==
    /\ pc = "input"
    /\ result' = [result EXCEPT !.out = to_output_df(rt, result.data, call.schema)]
    /\ pc' = "done"
    /\ UNCHANGED <<params, rt, call>>

NextRoundTrip == ToInput \/ ToOutput

SpecRoundTrip == InitRoundTrip /\ [][NextRoundTrip]_vars

C9_WitnessEmpty ==
    /\ Done /\ is_bounded(call.df)
    /\ rt = "_IterablePandasParam"
    /\ Rows(call.df) = <<>>
    /\ IsDataFrame(result.out) /\ result.out.schema = call.schema

====
